---------------------------- MODULE Spec2Model ----------------------------
(***************************************************************************)
(* Model of comparar_json.py: the canonicalizer (ordenar_lista,            *)
(* ordenar_dicionario), the differ (comparar_valores, comparar_json) and   *)
(* the try-block of main() that loads two documents, compares them and     *)
(* saves the difference records.                                           *)
(*                                                                         *)
(* Text (str values, dict keys, paths, display values, json.dumps output)  *)
(* is a sequence of character codes, so that Python's string ordering and  *)
(* string formatting are computed and not assumed.                         *)
(*                                                                         *)
(* A JSON value is a record whose field t is the Python type name:         *)
(*   "None"                                                                *)
(*   "bool"  : b, TRUE or FALSE                                            *)
(*   "int"   : n and e, the integer n * 10^e (n in 1..9 when e > 0).       *)
(*             The ints of the documents have e = 0 (and fit 32 bits) or   *)
(*             e = BigExp, beyond the range of a double                    *)
(*   "float" : h, the number of halves (2 is 1.0, 5 is 2.5), not negative  *)
(*   "str"   : s, the text                                                 *)
(*   "list"  : itens, the sequence of items                                *)
(*   "dict"  : pares, the sequence of <<key, value>> pairs in insertion    *)
(*             order, keys unique                                          *)
(***************************************************************************)
EXTENDS Integers, Sequences, FiniteSets, TLC

(* ------------------------------ bounds --------------------------------- *)

\* ints of the documents are 1..MaxInt, floats 1.0..MaxInt.0
MaxInt == 2

\* longest list from which the documents' lists are drawn
MaxLen == 2

\* the large integer of the documents is 10^BigExp
BigExp == 309

(* ------------------------------- text ---------------------------------- *)

CAMPO_NAO_EXISTE == <<67, 65, 77, 80, 79, 95, 78, 65, 79, 95, 69, 88, 73, 83, 84, 69>>  \* "CAMPO_NAO_EXISTE"

ITEM_NAO_EXISTE == <<73, 84, 69, 77, 95, 78, 65, 79, 95, 69, 88, 73, 83, 84, 69>>  \* "ITEM_NAO_EXISTE"

TxtTiposDiferentes == <<84, 105, 112, 111, 115, 32, 100, 105, 102, 101, 114, 101, 110, 116, 101, 115, 58, 32>>  \* "Tipos diferentes: "

TxtVs == <<32, 118, 115, 32>>  \* " vs "

TxtListaCom == <<76, 105, 115, 116, 97, 32, 99, 111, 109, 32>>  \* "Lista com "

TxtItens == <<32, 105, 116, 101, 110, 115>>  \* " itens"

TxtQuantidadeDiferente == <<81, 117, 97, 110, 116, 105, 100, 97, 100, 101, 32, 100, 105, 102, 101, 114, 101, 110, 116, 101, 58, 32>>  \* "Quantidade diferente: "

TxtItemSoJson1 == <<73, 116, 101, 109, 32, 101, 120, 105, 115, 116, 101, 32, 110, 111, 32, 74, 83, 79, 78, 49, 32, 109, 97, 115, 32, 110, 227, 111, 32, 110, 111, 32, 74, 83, 79, 78, 50>>  \* "Item existe no JSON1 mas não no JSON2"

TxtItemSoJson2 == <<73, 116, 101, 109, 32, 101, 120, 105, 115, 116, 101, 32, 110, 111, 32, 74, 83, 79, 78, 50, 32, 109, 97, 115, 32, 110, 227, 111, 32, 110, 111, 32, 74, 83, 79, 78, 49>>  \* "Item existe no JSON2 mas não no JSON1"

TxtCampoSoJson1 == <<67, 97, 109, 112, 111, 32, 101, 120, 105, 115, 116, 101, 32, 110, 111, 32, 74, 83, 79, 78, 49, 32, 109, 97, 115, 32, 110, 227, 111, 32, 110, 111, 32, 74, 83, 79, 78, 50>>  \* "Campo existe no JSON1 mas não no JSON2"

TxtValoresDiferentes == <<86, 97, 108, 111, 114, 101, 115, 32, 100, 105, 102, 101, 114, 101, 110, 116, 101, 115, 58, 32>>  \* "Valores diferentes: "

TxtVirgula == <<44, 32>>  \* ", "

TxtDoisPontos == <<58, 32>>  \* ": "

\* the keys and str values of the documents: "a", "b"
KeyA == <<97>>

KeyB == <<98>>

\* Python's < on str: lexicographic by code point
StrLess(s1, s2) ==
    \E i \in 1..(Len(s1) + 1) :
        /\ i <= Len(s2)
        /\ \A j \in 1..(i - 1) : s1[j] = s2[j]
        /\ (i = Len(s1) + 1 \/ s1[i] < s2[i])

\* str(n) of an int
RECURSIVE IntStr(_)
IntStr(n) ==
    IF n < 0 THEN <<45>> \o IntStr(0 - n)
    ELSE IF n < 10 THEN <<48 + n>>
    ELSE IntStr(n \div 10) \o <<48 + (n % 10)>>

\* str(x) of an int value v * 10^e
Zeros(n) == [i \in 1..n |-> 48]

IntValStr(x) == IntStr(x.n) \o Zeros(x.e)

\* repr(x) of a float given in halves: "1.0", "2.5"
FloatStr(h) == IntStr(h \div 2) \o <<46>> \o (IF h % 2 = 0 THEN <<48>> ELSE <<53>>)

\* sep.join(parts)
RECURSIVE Join(_, _)
Join(parts, sep) ==
    IF Len(parts) = 0 THEN <<>>
    ELSE IF Len(parts) = 1 THEN parts[1]
    ELSE parts[1] \o sep \o Join(Tail(parts), sep)

(* ------------------------------ values --------------------------------- *)

PyNone == [t |-> "None"]

PyBool(b) == [t |-> "bool", b |-> b]

PyInt(n) == [t |-> "int", n |-> n, e |-> 0]

PyBigInt(m, exp) == [t |-> "int", n |-> m, e |-> exp]

PyFloat(h) == [t |-> "float", h |-> h]

PyStr(s) == [t |-> "str", s |-> s]

PyList(itens) == [t |-> "list", itens |-> itens]

PyDict(pares) == [t |-> "dict", pares |-> pares]

\* dic.keys(), in insertion order
Keys(dic) == [i \in 1..Len(dic.pares) |-> dic.pares[i][1]]

KeySet(dic) == {dic.pares[i][1] : i \in 1..Len(dic.pares)}

\* dic[chave]
Get(dic, chave) == dic.pares[CHOOSE i \in 1..Len(dic.pares) : dic.pares[i][1] = chave][2]

\* str(x) and repr(x): they differ on str only (repr quotes it)
RECURSIVE PyRepr(_)
PyStrOf(x) == IF x.t = "str" THEN x.s ELSE PyRepr(x)

PyRepr(x) ==
    CASE x.t = "None" -> <<78, 111, 110, 101>>
      [] x.t = "bool" -> IF x.b THEN <<84, 114, 117, 101>> ELSE <<70, 97, 108, 115, 101>>
      [] x.t = "int" -> IntValStr(x)
      [] x.t = "float" -> FloatStr(x.h)
      [] x.t = "str" -> <<39>> \o x.s \o <<39>>
      [] x.t = "list" ->
            <<91>> \o Join([i \in 1..Len(x.itens) |-> PyRepr(x.itens[i])], TxtVirgula) \o <<93>>
      [] x.t = "dict" ->
            <<123>>
            \o Join([i \in 1..Len(x.pares) |->
                        <<39>> \o x.pares[i][1] \o <<39>> \o TxtDoisPontos
                        \o PyRepr(x.pares[i][2])],
                    TxtVirgula)
            \o <<125>>

\* sorted(keys) of a set of str keys: ascending by code point
RECURSIVE SortedKeys(_)
SortedKeys(ks) ==
    IF ks = {} THEN <<>>
    ELSE LET m == CHOOSE k \in ks : \A o \in ks : o = k \/ StrLess(k, o)
         IN  <<m>> \o SortedKeys(ks \ {m})

\* json.dumps(x, sort_keys=True)
RECURSIVE json_dumps(_)
json_dumps(x) ==
    CASE x.t = "None" -> <<110, 117, 108, 108>>
      [] x.t = "bool" -> IF x.b THEN <<116, 114, 117, 101>> ELSE <<102, 97, 108, 115, 101>>
      [] x.t = "int" -> IntValStr(x)
      [] x.t = "float" -> FloatStr(x.h)
      [] x.t = "str" -> <<34>> \o x.s \o <<34>>
      [] x.t = "list" ->
            <<91>> \o Join([i \in 1..Len(x.itens) |-> json_dumps(x.itens[i])], TxtVirgula) \o <<93>>
      [] x.t = "dict" ->
            LET ks == SortedKeys(KeySet(x))
            IN  <<123>>
                \o Join([i \in 1..Len(ks) |->
                            <<34>> \o ks[i] \o <<34>> \o TxtDoisPontos
                            \o json_dumps(Get(x, ks[i]))],
                        TxtVirgula)
                \o <<125>>

(* --------------------------- state of main() --------------------------- *)

VARIABLES
    pc,             \* position in main()'s try block
    hash_order,     \* iteration order this process gives to a set of str keys
    json1,          \* main(): json1, as loaded
    json2,          \* main(): json2, as loaded
    json1_ordenado, \* comparar_json(): json1_ordenado
    json2_ordenado, \* comparar_json(): json2_ordenado
    diferencas,     \* main(): diferencas, or the exception comparar_json raised
    csv,            \* rows of the output file, <<>> while it is not written
    resumo,         \* main(): tipos_diferenca, the count per tipo_diferenca
    entrada,        \* the value handed to the canonicalizer
    canonico,       \* its canonical form
    recanonico      \* the canonical form of its canonical form

\* the variables of the run of main()
main_vars == <<hash_order, json1, json2, json1_ordenado, json2_ordenado,
               diferencas, csv, resumo>>

\* the variables of the canonicalizer taken alone
canon_vars == <<entrada, canonico, recanonico>>

vars == <<pc, main_vars, canon_vars>>

(* --------------------------- canonicalizer ----------------------------- *)

\* float(valor) limit: ints of more than FloatMax10Exp + 1 digits overflow
FloatMax10Exp == 308

IsNumber(x) == x.t \in {"int", "float", "bool"}

\* the value of a number that fits a double, in halves
Halves(x) ==
    CASE x.t = "int" -> 2 * x.n
      [] x.t = "float" -> x.h
      [] x.t = "bool" -> IF x.b THEN 2 ELSE 0

IsBig(x) == x.t = "int" /\ x.e > 0

\* Python's < between int, float and bool (exact, no conversion to float)
NumLess(x, y) ==
    IF IsBig(x)
    THEN IsBig(y) /\ (x.e < y.e \/ (x.e = y.e /\ x.n < y.n))
    ELSE IsBig(y) \/ Halves(x) < Halves(y)

\* the key function of sorted() in ordenar_lista
SortKey(x) == IF x.t \in {"dict", "list"} THEN PyStr(json_dumps(x)) ELSE x

\* whether key1 < key2 raises TypeError
Incomparable(k1, k2) ==
    \/ k1.t = "None" \/ k2.t = "None"
    \/ IsNumber(k1) /\ k2.t = "str"
    \/ k1.t = "str" /\ IsNumber(k2)

\* key1 < key2, for keys that are comparable
KeyLess(k1, k2) == IF k1.t = "str" THEN StrLess(k1.s, k2.s) ELSE NumLess(k1, k2)

\* sorted() raises TypeError: it compares every item with another one, and
\* the comparisons it makes connect all items
SortRaisesTypeError(itens) ==
    /\ Len(itens) >= 2
    /\ \E i, j \in 1..Len(itens) : i # j /\ Incomparable(SortKey(itens[i]), SortKey(itens[j]))

\* insert x behind the items whose key is not greater (sorted() is stable)
RECURSIVE InsertSorted(_, _)
InsertSorted(x, ordenados) ==
    IF Len(ordenados) = 0 THEN <<x>>
    ELSE IF KeyLess(SortKey(x), SortKey(Head(ordenados))) THEN <<x>> \o ordenados
    ELSE <<Head(ordenados)>> \o InsertSorted(x, Tail(ordenados))

\* a sort that is not stable: items of equal keys come out in reverse order
RECURSIVE SortedUnstable(_)
SortedUnstable(itens) ==
    IF Len(itens) = 0 THEN <<>>
    ELSE InsertSorted(Head(itens), SortedUnstable(Tail(itens)))

\* sorted(itens, key=SortKey), for items whose keys are comparable
RECURSIVE Sorted(_)
Sorted(itens) ==
    IF Len(itens) = 0 THEN <<>>
    ELSE InsertSorted(itens[Len(itens)], Sorted(SubSeq(itens, 1, Len(itens) - 1)))

RECURSIVE ordenar_lista(_)
RECURSIVE ordenar_dicionario(_)

\* ordenar_lista: the loop over the items, then the attempt to sort
ordenar_lista(lista) ==
    IF lista.t # "list" THEN lista
    ELSE
        LET item_ordenado(item) ==
                LET chaves == SortedKeys(KeySet(item))
                IN  PyDict([i \in 1..Len(chaves) |->
                        LET valor == Get(item, chaves[i])
                        IN  <<chaves[i],
                              IF valor.t = "list" THEN ordenar_lista(valor)
                              ELSE IF valor.t = "dict" THEN ordenar_dicionario(valor)
                              ELSE valor>>])
            resultado == [i \in 1..Len(lista.itens) |->
                            IF lista.itens[i].t = "dict" THEN item_ordenado(lista.itens[i])
                            ELSE IF lista.itens[i].t = "list" THEN ordenar_lista(lista.itens[i])
                            ELSE lista.itens[i]]
        IN  IF SortRaisesTypeError(resultado)
            THEN PyList(resultado)
            ELSE PyList(Sorted(resultado))

\* what stands for an exception raised where a value was expected
ExcAttributeError == [t |-> "AttributeError"]

\* ordenar_dicionario: dic.keys() raises AttributeError unless dic is a dict
ordenar_dicionario(dic) ==
    IF dic.t # "dict" THEN ExcAttributeError
    ELSE
    LET chaves == SortedKeys(KeySet(dic))
    IN  PyDict([i \in 1..Len(chaves) |->
            LET valor == Get(dic, chaves[i])
            IN  <<chaves[i],
                  IF valor.t = "list" THEN ordenar_lista(valor)
                  ELSE IF valor.t = "dict" THEN ordenar_dicionario(valor)
                  ELSE valor>>])

(* ------------------------------- differ -------------------------------- *)

\* what a call returns: the list of difference records, or the exception raised
Ok(registros) == [erro |-> "", diferencas |-> registros]

Raise(excecao) == [erro |-> excecao, diferencas |-> <<>>]

\* the results of consecutive calls: the first exception, or all records in order
RECURSIVE Extend(_, _)
Extend(inicio, resultados) ==
    IF inicio.erro # "" \/ Len(resultados) = 0 THEN inicio
    ELSE IF Head(resultados).erro # "" THEN Head(resultados)
    ELSE Extend(Ok(inicio.diferencas \o Head(resultados).diferencas), Tail(resultados))

\* normalizar_valor: float(valor) for int, float and bool (isinstance(True, int)),
\* which raises OverflowError for an int beyond the range of a double
normalizar_valor(valor) ==
    IF IsNumber(valor)
    THEN IF IsBig(valor)
         THEN IF valor.e > FloatMax10Exp
              THEN [erro |-> "OverflowError", valor |-> PyNone]
              \* no document holds such an int: its rounding is not modelled
              ELSE [erro |-> "", valor |-> valor]
         ELSE [erro |-> "", valor |-> PyFloat(Halves(valor))]
    ELSE [erro |-> "", valor |-> valor]

\* a type name that follows isinstance: True and False are reported as "int"
obter_tipo_isinstance(valor) ==
    IF valor.t = "None" THEN "None"
    ELSE IF valor.t = "bool" THEN "int"
    ELSE valor.t

\* obter_tipo: type(valor).__name__, "None" for None
obter_tipo(valor) ==
    IF valor.t = "None" THEN "None"
    ELSE CASE valor.t = "int" -> "int"
           [] valor.t = "float" -> "float"
           [] valor.t = "str" -> "str"
           [] valor.t = "bool" -> "bool"
           [] valor.t = "list" -> "list"
           [] valor.t = "dict" -> "dict"

\* the text of a type name, as the f-strings of detalhes insert it
TipoTexto(tipo) ==
    CASE tipo = "None" -> <<78, 111, 110, 101>>
      [] tipo = "int" -> <<105, 110, 116>>
      [] tipo = "float" -> <<102, 108, 111, 97, 116>>
      [] tipo = "str" -> <<115, 116, 114>>
      [] tipo = "bool" -> <<98, 111, 111, 108>>
      [] tipo = "list" -> <<108, 105, 115, 116>>
      [] tipo = "dict" -> <<100, 105, 99, 116>>

\* one difference record (the dict comparar_valores appends)
Registro(caminho, tipo_diferenca, valor_json1, tipo_json1, valor_json2, tipo_json2, detalhes) ==
    [caminho |-> caminho, tipo_diferenca |-> tipo_diferenca,
     valor_json1 |-> valor_json1, tipo_json1 |-> tipo_json1,
     valor_json2 |-> valor_json2, tipo_json2 |-> tipo_json2,
     detalhes |-> detalhes]

\* the record of the type check
RegistroTipoDiferente(valor1, valor2, caminho) ==
    Registro(caminho, "TIPO_DIFERENTE",
             PyStrOf(valor1), obter_tipo(valor1),
             IF valor2.t # "None" THEN PyStrOf(valor2) ELSE CAMPO_NAO_EXISTE,
             obter_tipo(valor2),
             TxtTiposDiferentes \o TipoTexto(obter_tipo(valor1)) \o TxtVs
                 \o TipoTexto(obter_tipo(valor2)))

\* f"{caminho}[{i}]"
CaminhoItem(caminho, i) == caminho \o <<91>> \o IntStr(i) \o <<93>>

\* f"{caminho}.{chave}" if caminho else chave
CaminhoCampo(caminho, chave) ==
    IF Len(caminho) > 0 THEN caminho \o <<46>> \o chave ELSE chave

\* the order in which a for loop visits a set of keys
IterSet(chaves) == SelectSeq(hash_order, LAMBDA k : k \in chaves)

RECURSIVE comparar_valores(_, _, _)
comparar_valores(valor1, valor2, caminho) ==
    LET tipo1 == obter_tipo(valor1)
        tipo2 == obter_tipo(valor2)
    IN
    IF tipo1 # tipo2 THEN Ok(<<RegistroTipoDiferente(valor1, valor2, caminho)>>)
    ELSE IF valor1.t = "list" THEN
        LET lista1_ordenada == ordenar_lista(valor1).itens
            lista2_ordenada == ordenar_lista(valor2).itens
            len1 == Len(lista1_ordenada)
            len2 == Len(lista2_ordenada)
            max_len == IF len1 > len2 THEN len1 ELSE len2
            quantidade ==
                IF len1 # len2
                THEN <<Registro(caminho, "QUANTIDADE_ITENS_DIFERENTE",
                                TxtListaCom \o IntStr(len1) \o TxtItens, "list",
                                TxtListaCom \o IntStr(len2) \o TxtItens, "list",
                                TxtQuantidadeDiferente \o IntStr(len1) \o TxtVs \o IntStr(len2))>>
                ELSE <<>>
            \* the loop body for i = k - 1
            item(k) ==
                LET novo_caminho == CaminhoItem(caminho, k - 1)
                IN  IF k <= len1 /\ k <= len2
                    THEN comparar_valores(lista1_ordenada[k], lista2_ordenada[k], novo_caminho)
                    ELSE IF k <= len1
                    THEN Ok(<<Registro(novo_caminho, "ITEM_AUSENTE_JSON2",
                                       PyStrOf(lista1_ordenada[k]), obter_tipo(lista1_ordenada[k]),
                                       ITEM_NAO_EXISTE, "N/A", TxtItemSoJson1)>>)
                    ELSE Ok(<<Registro(novo_caminho, "ITEM_AUSENTE_JSON1",
                                       ITEM_NAO_EXISTE, "N/A",
                                       PyStrOf(lista2_ordenada[k]), obter_tipo(lista2_ordenada[k]),
                                       TxtItemSoJson2)>>)
        IN  Extend(Ok(quantidade), [k \in 1..max_len |-> item(k)])
    ELSE IF valor1.t = "dict" THEN
        LET chaves1 == KeySet(valor1)
            chaves2 == KeySet(valor2)
            chaves_apenas_json1 == IterSet(chaves1 \ chaves2)
            chaves_comuns == IterSet(chaves1 \cap chaves2)
            ausentes ==
                [k \in 1..Len(chaves_apenas_json1) |->
                    LET chave == chaves_apenas_json1[k]
                    IN  Registro(CaminhoCampo(caminho, chave), "CAMPO_AUSENTE_JSON2",
                                 PyStrOf(Get(valor1, chave)), obter_tipo(Get(valor1, chave)),
                                 CAMPO_NAO_EXISTE, "N/A", TxtCampoSoJson1)]
        IN  Extend(Ok(ausentes),
                   [k \in 1..Len(chaves_comuns) |->
                       LET chave == chaves_comuns[k]
                       IN  comparar_valores(Get(valor1, chave), Get(valor2, chave),
                                            CaminhoCampo(caminho, chave))])
    ELSE
        LET valor1_norm == normalizar_valor(valor1)
            valor2_norm == normalizar_valor(valor2)
        IN  IF valor1_norm.erro # "" THEN Raise(valor1_norm.erro)
            ELSE IF valor2_norm.erro # "" THEN Raise(valor2_norm.erro)
            ELSE IF valor1_norm.valor # valor2_norm.valor
            THEN Ok(<<Registro(caminho, "VALOR_DIFERENTE",
                               PyStrOf(valor1), tipo1, PyStrOf(valor2), tipo2,
                               TxtValoresDiferentes \o PyStrOf(valor1) \o TxtVs
                                   \o PyStrOf(valor2))>>)
            ELSE Ok(<<>>)

\* comparar_json: canonicalize both documents, compare from the empty path
comparar_json(j1, j2) ==
    IF ordenar_dicionario(j1) = ExcAttributeError \/ ordenar_dicionario(j2) = ExcAttributeError
    THEN Raise("AttributeError")
    ELSE comparar_valores(ordenar_dicionario(j1), ordenar_dicionario(j2), <<>>)

(* ----------------------------- documents ------------------------------- *)

\* 10^BigExp, a valid JSON integer
PyBig == PyBigInt(1, BigExp)

Escalares ==
    {PyNone, PyBool(TRUE), PyStr(KeyA), PyBig}
    \cup {PyInt(n) : n \in 1..MaxInt}
    \cup {PyFloat(2 * n) : n \in 1..MaxInt}

ItensLista == {PyInt(1), PyInt(2), PyBool(TRUE)}

Listas == {PyList(itens) : itens \in UNION {[1..n -> ItensLista] : n \in 0..MaxLen}}

DictsAninhados ==
    {PyDict(<<>>),
     PyDict(<<<<KeyA, PyInt(1)>>>>),
     PyDict(<<<<KeyA, PyInt(2)>>>>),
     PyDict(<<<<KeyA, PyStr(KeyA)>>>>),
     PyDict(<<<<KeyA, PyInt(1)>>, <<KeyB, PyInt(2)>>>>),
     PyDict(<<<<KeyB, PyInt(2)>>, <<KeyA, PyInt(1)>>>>)}

ListasMistas ==
    {PyList(<<PyStr(KeyA), PyInt(1)>>),
     PyList(<<PyInt(1), PyStr(KeyA)>>),
     PyList(<<PyStr(KeyB), PyStr(KeyA)>>),
     PyList(<<PyNone>>),
     PyList(<<PyBig>>),
     PyList(<<PyBig, PyInt(1)>>),
     PyList(<<PyFloat(4), PyInt(1)>>),
     PyList(<<PyInt(1), PyFloat(4)>>),
     PyList(<<PyList(<<PyInt(2), PyInt(1)>>)>>),
     PyList(<<PyList(<<PyInt(2), PyInt(1)>>), PyInt(1)>>),
     PyList(<<PyDict(<<<<KeyB, PyInt(2)>>, <<KeyA, PyInt(1)>>>>)>>),
     PyList(<<PyDict(<<<<KeyA, PyInt(1)>>>>), PyStr(KeyB)>>),
     PyList(<<PyStr(KeyB), PyDict(<<<<KeyA, PyInt(1)>>>>)>>)}

Valores == Escalares \cup Listas \cup ListasMistas \cup DictsAninhados

Poucos == {PyInt(1), PyStr(KeyA), PyBig}

\* what json.load may return: objects, and the other JSON values at the root
Documentos ==
    {PyDict(<<>>)}
    \cup {PyDict(<<<<KeyA, v>>>>) : v \in Valores}
    \cup {PyDict(<<<<KeyB, v>>>>) : v \in Poucos}
    \cup {PyDict(<<<<KeyA, v>>, <<KeyB, w>>>>) : v \in Poucos, w \in Poucos}
    \cup {PyDict(<<<<KeyB, w>>, <<KeyA, v>>>>) : v \in Poucos, w \in Poucos}
    \cup {PyNone, PyInt(1), PyList(<<>>), PyList(<<PyInt(1)>>)}

(* ------------------------------- main() -------------------------------- *)

NaoCarregado == [t |-> "unset"]

\* campos, the header of the CSV file
campos == <<"caminho", "tipo_diferenca", "valor_json1", "tipo_json1",
            "valor_json2", "tipo_json2", "detalhes">>

TiposDiferenca ==
    {"TIPO_DIFERENTE", "QUANTIDADE_ITENS_DIFERENTE", "ITEM_AUSENTE_JSON2",
     "ITEM_AUSENTE_JSON1", "CAMPO_AUSENTE_JSON2", "VALOR_DIFERENTE"}

Init ==
    /\ pc = "carregar_json1"
    /\ hash_order \in {<<KeyA, KeyB>>, <<KeyB, KeyA>>}
    /\ json1 = NaoCarregado
    /\ json2 = NaoCarregado
    /\ json1_ordenado = NaoCarregado
    /\ json2_ordenado = NaoCarregado
    /\ diferencas = Ok(<<>>)
    /\ csv = <<>>
    /\ resumo = [tipo \in {} |-> 0]
    /\ entrada = NaoCarregado
    /\ canonico = NaoCarregado
    /\ recanonico = NaoCarregado

\* json1 = json.load(f)
CarregarJson1 ==
    /\ pc = "carregar_json1"
    /\ json1' \in Documentos
    /\ pc' = "carregar_json2"
    /\ UNCHANGED <<hash_order, json2, json1_ordenado, json2_ordenado, diferencas, csv, resumo>>
    /\ UNCHANGED canon_vars

\* json2 = json.load(f)
CarregarJson2 ==
    /\ pc = "carregar_json2"
    /\ json2' \in Documentos
    /\ pc' = "comparar"
    /\ UNCHANGED <<hash_order, json1, json1_ordenado, json2_ordenado, diferencas, csv, resumo>>
    /\ UNCHANGED canon_vars

\* open() raises FileNotFoundError or json.load raises JSONDecodeError: main reports it
FalhaAoCarregar ==
    /\ pc \in {"carregar_json1", "carregar_json2"}
    /\ pc' = "erro"
    /\ UNCHANGED <<hash_order, json1, json2, json1_ordenado, json2_ordenado, diferencas, csv, resumo>>
    /\ UNCHANGED canon_vars

\* diferencas = comparar_json(json1, json2); an exception ends main in "except Exception"
CompararJsons ==
    /\ pc = "comparar"
    /\ json1_ordenado' = ordenar_dicionario(json1)
    /\ json2_ordenado' = IF ordenar_dicionario(json1) = ExcAttributeError
                         THEN NaoCarregado
                         ELSE ordenar_dicionario(json2)
    /\ diferencas' = comparar_json(json1, json2)
    /\ pc' = IF comparar_json(json1, json2).erro # "" THEN "erro" ELSE "salvar"
    /\ UNCHANGED <<hash_order, json1, json2, csv, resumo>>
    /\ UNCHANGED canon_vars

\* salvar_diferencas_csv: no file when there is no difference, else header and rows
SalvarDiferencasCsv ==
    /\ pc = "salvar"
    /\ csv' = IF Len(diferencas.diferencas) = 0
              THEN <<>>
              ELSE <<campos>> \o [i \in 1..Len(diferencas.diferencas) |->
                          [k \in 1..Len(campos) |->
                              CASE k = 1 -> diferencas.diferencas[i].caminho
                                [] k = 2 -> diferencas.diferencas[i].tipo_diferenca
                                [] k = 3 -> diferencas.diferencas[i].valor_json1
                                [] k = 4 -> diferencas.diferencas[i].tipo_json1
                                [] k = 5 -> diferencas.diferencas[i].valor_json2
                                [] k = 6 -> diferencas.diferencas[i].tipo_json2
                                [] k = 7 -> diferencas.diferencas[i].detalhes]]
    /\ pc' = "resumo"
    /\ UNCHANGED <<hash_order, json1, json2, json1_ordenado, json2_ordenado, diferencas, resumo>>
    /\ UNCHANGED canon_vars

\* the summary: the number of records of each tipo_diferenca that occurs
ExibirResumo ==
    /\ pc = "resumo"
    /\ resumo' = [tipo \in {diferencas.diferencas[i].tipo_diferenca :
                                i \in 1..Len(diferencas.diferencas)} |->
                    Cardinality({i \in 1..Len(diferencas.diferencas) :
                                    diferencas.diferencas[i].tipo_diferenca = tipo})]
    /\ pc' = "fim"
    /\ UNCHANGED <<hash_order, json1, json2, json1_ordenado, json2_ordenado, diferencas, csv>>
    /\ UNCHANGED canon_vars

Next ==
    \/ CarregarJson1
    \/ CarregarJson2
    \/ FalhaAoCarregar
    \/ CompararJsons
    \/ SalvarDiferencasCsv
    \/ ExibirResumo

Spec == Init /\ [][Next]_vars

(* ----------------------- the canonicalizer alone ----------------------- *)

\* the canonicalizer on a value, as ordenar_dicionario applies it to a field:
\* ordenar_lista for a list, ordenar_dicionario for a dict, else the value
Canonicalize(x) ==
    IF x.t = "list" THEN ordenar_lista(x)
    ELSE IF x.t = "dict" THEN ordenar_dicionario(x)
    ELSE x

ItensCanon ==
    Escalares
    \cup {PyStr(KeyB),
          PyList(<<PyInt(2), PyInt(1)>>),
          PyList(<<PyStr(KeyB), PyInt(1)>>),
          PyDict(<<<<KeyA, PyInt(1)>>>>),
          PyDict(<<<<KeyB, PyList(<<PyInt(2), PyInt(1)>>)>>, <<KeyA, PyInt(1)>>>>)}

\* arrays of up to MaxLen + 1 items
ListasCanon ==
    {PyList(itens) : itens \in UNION {[1..n -> ItensCanon] : n \in 0..(MaxLen + 1)}}

\* arrays, and objects that hold one
ValoresCanon ==
    ListasCanon \cup {PyDict(<<<<KeyB, l>>, <<KeyA, PyInt(1)>>>>) : l \in ListasCanon}

InitCanon ==
    /\ pc = "canonicalizar"
    /\ entrada \in ValoresCanon
    /\ canonico = NaoCarregado
    /\ recanonico = NaoCarregado
    /\ hash_order = <<KeyA, KeyB>>
    /\ json1 = NaoCarregado
    /\ json2 = NaoCarregado
    /\ json1_ordenado = NaoCarregado
    /\ json2_ordenado = NaoCarregado
    /\ diferencas = Ok(<<>>)
    /\ csv = <<>>
    /\ resumo = [tipo \in {} |-> 0]

\* the canonical form, as comparar_json computes it
Canonicalizar ==
    /\ pc = "canonicalizar"
    /\ canonico' = Canonicalize(entrada)
    /\ pc' = "recanonicalizar"
    /\ UNCHANGED <<entrada, recanonico>>
    /\ UNCHANGED main_vars

\* the canonical form again, as comparar_valores computes it of an array that
\* comparar_json has canonicalized
Recanonicalizar ==
    /\ pc = "recanonicalizar"
    /\ recanonico' = Canonicalize(canonico)
    /\ pc' = "canonico"
    /\ UNCHANGED <<entrada, canonico>>
    /\ UNCHANGED main_vars

NextCanon == Canonicalizar \/ Recanonicalizar

SpecCanon == InitCanon /\ [][NextCanon]_vars

(* ------------------------- properties: helpers ------------------------- *)

\* comparar_json has been called (it sets json1_ordenado first)
Comparou == json1_ordenado # NaoCarregado

\* the call returned normally with no difference record
SemDiferencas(resultado) == resultado.erro = "" /\ Len(resultado.diferencas) = 0

\* the kind of a JSON value: bool is a kind of its own, distinct from int
Kind(x) == x.t

\* every value nested in x, x included
RECURSIVE SubValues(_)
SubValues(x) ==
    {x} \cup
    (IF x.t = "list" THEN UNION {SubValues(x.itens[i]) : i \in 1..Len(x.itens)}
     ELSE IF x.t = "dict" THEN UNION {SubValues(x.pares[i][2]) : i \in 1..Len(x.pares)}
     ELSE {})

\* concatenation of a sequence of sequences
RECURSIVE Flatten(_)
Flatten(seqs) == IF Len(seqs) = 0 THEN <<>> ELSE Head(seqs) \o Flatten(Tail(seqs))

\* the comparisons comparar_valores(valor1, valor2, caminho) makes when no call
\* raises, itself first: each is <<valor1, valor2, caminho>>
RECURSIVE Calls(_, _, _)
Calls(valor1, valor2, caminho) ==
    <<[valor1 |-> valor1, valor2 |-> valor2, caminho |-> caminho]>> \o
    (IF Kind(valor1) # Kind(valor2) THEN <<>>
     ELSE IF valor1.t = "list" THEN
        LET l1 == ordenar_lista(valor1).itens
            l2 == ordenar_lista(valor2).itens
            comuns == IF Len(l1) < Len(l2) THEN Len(l1) ELSE Len(l2)
        IN  Flatten([k \in 1..comuns |-> Calls(l1[k], l2[k], CaminhoItem(caminho, k - 1))])
     ELSE IF valor1.t = "dict" THEN
        LET comuns == IterSet(KeySet(valor1) \cap KeySet(valor2))
        IN  Flatten([k \in 1..Len(comuns) |->
                Calls(Get(valor1, comuns[k]), Get(valor2, comuns[k]),
                      CaminhoCampo(caminho, comuns[k]))])
     ELSE <<>>)

\* the comparisons of the run, for two documents that are objects
CallsOfRun ==
    IF Comparou /\ json1.t = "dict" /\ json2.t = "dict"
    THEN Calls(json1_ordenado, json2_ordenado, <<>>)
    ELSE <<>>

\* caminho q names the position p or a position inside it
AtOrBelow(q, p) ==
    /\ Len(q) >= Len(p)
    /\ SubSeq(q, 1, Len(p)) = p
    /\ (Len(q) = Len(p) \/ Len(p) = 0 \/ q[Len(p) + 1] \in {46, 91})

\* the records of a list that satisfy a test
Count(registros, Test(_)) == Cardinality({i \in 1..Len(registros) : Test(registros[i])})

(* ------------------------------ properties ----------------------------- *)

\* deep equality of two values under the type+value rule: int and float are one
\* numeric kind compared by value, bool is its own kind, objects are equal as
\* mappings, arrays item by item
RECURSIVE DeepEqual(_, _)
DeepEqual(x, y) ==
    IF x.t \in {"int", "float"} /\ y.t \in {"int", "float"}
    THEN ~NumLess(x, y) /\ ~NumLess(y, x)
    ELSE IF x.t # y.t THEN FALSE
    ELSE IF x.t = "list"
    THEN /\ Len(x.itens) = Len(y.itens)
         /\ \A i \in 1..Len(x.itens) : DeepEqual(x.itens[i], y.itens[i])
    ELSE IF x.t = "dict"
    THEN /\ KeySet(x) = KeySet(y)
         /\ \A k \in KeySet(x) : DeepEqual(Get(x, k), Get(y, k))
    ELSE x = y

\* C1: comparar_json(a, b) of two objects returns no difference record if and
\* only if the canonical forms of a and b are deeply equal; in particular a
\* document b with a key that a lacks yields a record (stated of the runs that
\* return)
C1_EmptyIffDeepEqual ==
    (Comparou /\ json1.t = "dict" /\ json2.t = "dict" /\ diferencas.erro = "")
        => (Len(diferencas.diferencas) = 0 <=> DeepEqual(json1_ordenado, json2_ordenado))

\* C2: comparing {x: n} with {x: float(n)} yields no difference record
C2_IntFloatNoRecords ==
    \A k \in {KeyA, KeyB}, n \in 1..MaxInt :
        (Comparou /\ json1 = PyDict(<<<<k, PyInt(n)>>>>)
                  /\ json2 = PyDict(<<<<k, PyFloat(2 * n)>>>>))
            => SemDiferencas(diferencas)

\* C3: comparar_json never raises, whatever JSON values the two roots are
C3_NeverRaises == diferencas.erro = ""

IsScalar(x) == x.t \notin {"list", "dict"}

\* t holds the items of s in some order
IsPermutation(s, t) ==
    /\ Len(s) = Len(t)
    /\ \A x \in {s[i] : i \in 1..Len(s)} :
          Cardinality({i \in 1..Len(s) : s[i] = x}) = Cardinality({i \in 1..Len(t) : t[i] = x})

\* C4: the diff of an object and the same key/value pairs inserted in another
\* order is empty, and so is the diff of an array of mutually orderable scalars
\* and a permutation of it at the same key (stated of the runs that return)
C4_OrderInsensitive ==
    (Comparou /\ json1.t = "dict" /\ json2.t = "dict" /\ diferencas.erro = "")
    => /\ IsPermutation(json1.pares, json2.pares) => Len(diferencas.diferencas) = 0
       /\ \A k \in {KeyA, KeyB} :
            (/\ KeySet(json1) = {k} /\ KeySet(json2) = {k}
             /\ Get(json1, k).t = "list" /\ Get(json2, k).t = "list"
             /\ \A i \in 1..Len(Get(json1, k).itens) : IsScalar(Get(json1, k).itens[i])
             /\ ~SortRaisesTypeError(Get(json1, k).itens)
             /\ IsPermutation(Get(json1, k).itens, Get(json2, k).itens))
            => Len(diferencas.diferencas) = 0

\* C5: canonicalizing a canonical form again gives the canonical form, for
\* every array and object, sortable or not
C5_CanonIdempotent == pc = "canonico" => recanonico = canonico

\* C5 witness: [[2, 1], 1] was canonicalized to [[1, 2], 1] and canonicalized
\* again: the inner array was sorted, the outer one kept its order, its sort
\* failing on a str key against an int
C5_Witness ==
    /\ pc = "canonico"
    /\ entrada = PyList(<<PyList(<<PyInt(2), PyInt(1)>>), PyInt(1)>>)
    /\ canonico = PyList(<<PyList(<<PyInt(1), PyInt(2)>>), PyInt(1)>>)
    /\ SortRaisesTypeError(canonico.itens)

\* C5 in the run of main(): the canonical documents, and every array and
\* object nested in the documents, are canonicalized to themselves again
CanonIdempotentInRun ==
    /\ \A x \in SubValues(json1) \cup SubValues(json2) :
          Canonicalize(Canonicalize(x)) = Canonicalize(x)
    /\ (Comparou /\ json1.t = "dict") => ordenar_dicionario(json1_ordenado) = json1_ordenado

\* C6: diffing an object document against itself yields no difference record
C6_Reflexive ==
    (Comparou /\ json1.t = "dict" /\ json2 = json1) => SemDiferencas(diferencas)

\* the part of C6 that the code keeps: a diff of an object document against
\* itself that returns, returns no record
ReflexiveWhenReturns ==
    (Comparou /\ json1.t = "dict" /\ json2 = json1 /\ diferencas.erro = "")
        => Len(diferencas.diferencas) = 0

\* C7: a comparison of two values of different kinds returns exactly one record,
\* TIPO_DIFERENTE at the path of the comparison, and the records the run returns
\* hold no other record at that path or below it
C7_TypeMismatchShortCircuit ==
    \A i \in 1..Len(CallsOfRun) :
        LET c == CallsOfRun[i]
            r == comparar_valores(c.valor1, c.valor2, c.caminho)
        IN  Kind(c.valor1) # Kind(c.valor2)
            => /\ r.erro = ""
               /\ Len(r.diferencas) = 1
               /\ r.diferencas[1].tipo_diferenca = "TIPO_DIFERENTE"
               /\ r.diferencas[1].caminho = c.caminho
               /\ diferencas.erro = ""
                  => /\ Count(diferencas.diferencas,
                              LAMBDA reg : AtOrBelow(reg.caminho, c.caminho)) = 1
                     /\ Count(diferencas.diferencas,
                              LAMBDA reg : reg = r.diferencas[1]) = 1

\* C7 witness: a run that returned, in which True was compared with an int
\* inside an array
C7_Witness ==
    /\ diferencas.erro = ""
    /\ \E i \in 1..Len(CallsOfRun) :
          /\ Kind(CallsOfRun[i].valor1) = "bool"
          /\ Kind(CallsOfRun[i].valor2) = "int"
          /\ Len(CallsOfRun[i].caminho) > 1

\* what C8 says of the records r of a comparison c of two objects
MissingFieldRecords(c, r) ==
    \A chave \in KeySet(c.valor1) \ KeySet(c.valor2) :
        LET onde == IF c.caminho = <<>> THEN chave ELSE c.caminho \o <<46>> \o chave
        IN  /\ Count(r, LAMBDA reg : AtOrBelow(reg.caminho, onde)) = 1
            /\ \E j \in 1..Len(r) :
                  /\ r[j].caminho = onde
                  /\ r[j].tipo_diferenca = "CAMPO_AUSENTE_JSON2"
                  /\ r[j].valor_json1 = PyStrOf(Get(c.valor1, chave))
                  /\ r[j].tipo_json1 = Kind(Get(c.valor1, chave))
                  /\ r[j].valor_json2 = CAMPO_NAO_EXISTE

\* C8: a comparison of two objects returns, for every key of the left object that
\* the right one lacks, exactly one CAMPO_AUSENTE_JSON2 record at '{path}.{key}'
\* (the bare key at the root) with the left value's display and type and the
\* missing-field sentinel, and no record below that path
C8_MissingField ==
    \A i \in 1..Len(CallsOfRun) :
        LET c == CallsOfRun[i]
            r == comparar_valores(c.valor1, c.valor2, c.caminho)
        IN  (c.valor1.t = "dict" /\ c.valor2.t = "dict")
            => (r.erro = "" /\ MissingFieldRecords(c, r.diferencas))

\* the part of C8 that the code keeps: the records of a comparison of two
\* objects that returns
MissingFieldWhenReturns ==
    \A i \in 1..Len(CallsOfRun) :
        LET c == CallsOfRun[i]
            r == comparar_valores(c.valor1, c.valor2, c.caminho)
        IN  (c.valor1.t = "dict" /\ c.valor2.t = "dict" /\ r.erro = "")
            => MissingFieldRecords(c, r.diferencas)

\* the records of a list whose caminho is at or below a path
Under(registros, onde) == SelectSeq(registros, LAMBDA reg : AtOrBelow(reg.caminho, onde))

\* what C9 says of the records r of a comparison c of two arrays
ListRecords(c, r) ==
    LET l1 == ordenar_lista(c.valor1).itens
        l2 == ordenar_lista(c.valor2).itens
        menor == IF Len(l1) < Len(l2) THEN Len(l1) ELSE Len(l2)
        maior == IF Len(l1) > Len(l2) THEN Len(l1) ELSE Len(l2)
        onde(k) == c.caminho \o <<91>> \o IntStr(k - 1) \o <<93>>
        DeQuantidade(reg) ==
            reg.caminho = c.caminho /\ reg.tipo_diferenca = "QUANTIDADE_ITENS_DIFERENTE"
    IN  /\ Count(r, DeQuantidade) = (IF Len(l1) # Len(l2) THEN 1 ELSE 0)
        /\ Len(l1) # Len(l2) => DeQuantidade(r[1])
        /\ \A k \in 1..menor :
              Under(r, onde(k)) = comparar_valores(l1[k], l2[k], onde(k)).diferencas
        /\ \A k \in (menor + 1)..maior :
              /\ Len(Under(r, onde(k))) = 1
              /\ Under(r, onde(k))[1].caminho = onde(k)
              /\ Under(r, onde(k))[1].tipo_diferenca =
                    (IF Len(l1) > Len(l2) THEN "ITEM_AUSENTE_JSON2" ELSE "ITEM_AUSENTE_JSON1")
        /\ Len(l1) = Len(l2) =>
              Count(r, LAMBDA reg :
                  /\ reg.tipo_diferenca \in {"QUANTIDADE_ITENS_DIFERENTE",
                        "ITEM_AUSENTE_JSON1", "ITEM_AUSENTE_JSON2"}
                  /\ \/ reg.caminho = c.caminho
                     \/ \E k \in 1..maior : reg.caminho = onde(k)) = 0

\* C9: a comparison of two arrays of different lengths returns one
\* QUANTIDADE_ITENS_DIFERENTE record at the path, before all per-index records;
\* the indices both arrays have are compared recursively on the sorted arrays,
\* every other index yields exactly one ITEM_AUSENTE_JSON2 (left longer) or
\* ITEM_AUSENTE_JSON1 record; equal lengths yield neither kind of record
C9_ListLengthMismatch ==
    \A i \in 1..Len(CallsOfRun) :
        LET c == CallsOfRun[i]
            r == comparar_valores(c.valor1, c.valor2, c.caminho)
        IN  (c.valor1.t = "list" /\ c.valor2.t = "list")
            => (r.erro = "" /\ ListRecords(c, r.diferencas))

\* the part of C9 that the code keeps: the records of a comparison of two
\* arrays that returns
ListRecordsWhenReturns ==
    \A i \in 1..Len(CallsOfRun) :
        LET c == CallsOfRun[i]
            r == comparar_valores(c.valor1, c.valor2, c.caminho)
        IN  (c.valor1.t = "list" /\ c.valor2.t = "list" /\ r.erro = "")
            => ListRecords(c, r.diferencas)

\* C10: a comparison of a value that is not null with JSON null returns a
\* TIPO_DIFERENTE record whose right display is the text of null, "None"
C10_NullRightDisplay ==
    \A i \in 1..Len(CallsOfRun) :
        LET c == CallsOfRun[i]
            r == comparar_valores(c.valor1, c.valor2, c.caminho)
        IN  (c.valor1.t # "None" /\ c.valor2.t = "None")
            => /\ Len(r.diferencas) = 1
               /\ r.diferencas[1].tipo_diferenca = "TIPO_DIFERENTE"
               /\ r.diferencas[1].valor_json2 = <<78, 111, 110, 101>>

=============================================================================
